---- MODULE Spec2Model ----
(***************************************************************************)
(* Model of src/testsuite/ui/uitest/run.go.  The file holds two units:     *)
(*   - package apigen: the TypeScript client generator (MustWriteTS,       *)
(*     generateTS, registerTypes, createAPIClient, getArgsAndPath);        *)
(*   - package uitest: the browser test harness (Run,                      *)
(*     browserTimeoutDetector, timeoutSleeper).                            *)
(* Strings are sequences of tokens.  Every token that the code inspects    *)
(* ("/", "{", ",", " ", "\t") is a token of its own; the other tokens are  *)
(* atoms that contain none of these characters.                            *)
(***************************************************************************)
EXTENDS Integers, Sequences, FiniteSets, TLC

VARIABLES
    method,      \* the *fullEndpoint being expanded / emitted (SpecEndpoint)
    funcArgs,    \* getArgsAndPath's first result
    path,        \* getArgsAndPath's second result
    body,        \* the lines pf() printed for the method
    epc,         \* position in the loop body of createAPIClient
    api,         \* the *API a generation run reads (SpecGen)
    result,      \* tsGenFile.result: the lines printed so far
    types,       \* tsGenFile.types: the registry, in first-registration order
    gi,          \* index of the next group of the loop of generateTS
    gpc,         \* position in MustWriteTS / generateTS
    runs,        \* MustWriteTS calls started so far
    files,       \* the contents os.WriteFile wrote, one per successful run
    mpc,         \* position of the test function of Run (SpecDetector)
    dpc,         \* position of the detector goroutine
    timer,       \* the detector's timer: unset, armed, fired, stopped
    ctxDone,     \* the detector's context is cancelled
    firedAfterCancel,  \* the timer fired when cancel had been called
    sawBoth,     \* the select found both of its cases ready
    apc,         \* avoidStall's goroutine: off, cleanup, closed
    ticker,      \* avoidStall's ticker: unset, armed, fired, stopped
    maxTries,    \* timeoutSleeper's maxTries (SpecSleeper)
    slept,       \* the sleeper's counter
    spc,         \* position of the current sleeper call
    stimer,      \* the timer of the current sleeper call
    sctx,        \* the context passed to the sleeper is cancelled
    returns      \* what the calls returned so far, in order

evars == <<method, funcArgs, path, body, epc>>

gvars == <<api, result, types, gi, gpc, runs, files>>

hvars == <<mpc, dpc, timer, ctxDone, firedAfterCancel, sawBoth, apc, ticker>>

svars == <<maxTries, slept, spc, stimer, sctx, returns>>

vars == <<method, funcArgs, path, body, epc,
          api, result, types, gi, gpc, runs, files,
          mpc, dpc, timer, ctxDone, firedAfterCancel, sawBoth, apc, ticker,
          maxTries, slept, spc, stimer, sctx, returns>>

Nil == "nil"

(***************************************************************************)
(* Bounds.                                                                 *)
(***************************************************************************)
MaxPieces == 4
MaxGroups == 2
MaxEndpoints == 1
MaxRuns == 2
MaxMaxTries == 5
MaxCalls == 7

(***************************************************************************)
(* package strings                                                         *)
(***************************************************************************)
RECURSIVE Flatten(_)
Flatten(ss) == IF ss = <<>> THEN <<>> ELSE Head(ss) \o Flatten(Tail(ss))

\* strings.Index(s, c) for a one-character c; 0-based, -1 when absent.
RECURSIVE IndexFrom(_, _, _)
IndexFrom(s, c, i) ==
    IF i > Len(s) THEN -1
    ELSE IF s[i] = c THEN i - 1
    ELSE IndexFrom(s, c, i + 1)

Index(s, c) == IndexFrom(s, c, 1)

\* strings.ReplaceAll(s, "//", "/"): one left-to-right pass over
\* non-overlapping matches; the replacement text is not scanned again.
RECURSIVE ReplaceAllSlashSlash(_)
ReplaceAllSlashSlash(s) ==
    IF Len(s) < 2 THEN s
    ELSE IF s[1] = "/" /\ s[2] = "/"
         THEN <<"/">> \o ReplaceAllSlashSlash(SubSeq(s, 3, Len(s)))
         ELSE <<s[1]>> \o ReplaceAllSlashSlash(Tail(s))

\* strings.Trim(s, cutset): drops leading and trailing characters of cutset.
RECURSIVE TrimLeft(_, _)
TrimLeft(s, cutset) ==
    IF s # <<>> /\ Head(s) \in cutset THEN TrimLeft(Tail(s), cutset) ELSE s

RECURSIVE TrimRight(_, _)
TrimRight(s, cutset) ==
    IF s # <<>> /\ s[Len(s)] \in cutset
    THEN TrimRight(SubSeq(s, 1, Len(s) - 1), cutset) ELSE s

Trim(s, cutset) == TrimRight(TrimLeft(s, cutset), cutset)

\* strings.Contains(s, sub)
Contains(s, sub) ==
    \E i \in 1..(Len(s) - Len(sub) + 1) : SubSeq(s, i, i + Len(sub) - 1) = sub

(***************************************************************************)
(* The schema: fullEndpoint, Param.  Types are Go type names.              *)
(***************************************************************************)
Param(name, type) == [Name |-> name, Type |-> type]

\* requestType / responseType / namedType: the Go type of the payload or
\* of the parameter.
requestType(m) == m.Request
responseType(m) == m.Response
namedType(p, where) == p.Type

\* getElementaryType: the element type of a slice, array or pointer type.
getElementaryType(t) ==
    CASE t = "[]string" -> "string"
      [] t = "*int" -> "int"
      [] OTHER -> t

\* TypescriptTypeName: the TypeScript name of a Go type.
TypescriptTypeName(t) ==
    CASE t = "string" -> "string"
      [] t = "int" -> "number"
      [] t = "uuid.UUID" -> "UUID"
      [] t = "[]string" -> "string[]"
      [] t = "*int" -> "number | null"
      [] OTHER -> t

(***************************************************************************)
(* tsGenFile.getArgsAndPath (lines 304-329)                                *)
(***************************************************************************)
ROOT_PATH == <<"$", "{", "this.ROOT_PATH", "}">>

\* fmt.Sprintf("%s: %s, ", name, ts)
ArgText(name, ts) == <<name, ":", " ", ts, ",", " ">>

\* fmt.Sprintf("/${%s}", name)
InterpText(name) == <<"/", "$", "{", name, "}">>

StrippedPath(m) ==
    LET i == Index(m.Path, "{")
    IN  IF i > -1 THEN SubSeq(m.Path, 1, i) ELSE m.Path

RequestArg(m) ==
    IF m.Request # Nil
    THEN ArgText("request", TypescriptTypeName(requestType(m)))
    ELSE <<>>

PathArgs(m) ==
    Flatten([k \in 1..Len(m.PathParams) |->
        ArgText(m.PathParams[k].Name,
                TypescriptTypeName(namedType(m.PathParams[k], "path")))])

PathInterps(m) ==
    Flatten([k \in 1..Len(m.PathParams) |-> InterpText(m.PathParams[k].Name)])

QueryArgs(m) ==
    Flatten([k \in 1..Len(m.QueryParams) |->
        ArgText(m.QueryParams[k].Name,
                TypescriptTypeName(namedType(m.QueryParams[k], "query")))])

\* Faulty variant: the query parameters are listed before the path parameters.
getArgsAndPath_QueryFirst(m) ==
    [funcArgs |-> Trim(RequestArg(m) \o QueryArgs(m) \o PathArgs(m), {",", " "}),
     path     |-> ReplaceAllSlashSlash(ROOT_PATH \o StrippedPath(m) \o PathInterps(m))]

getArgsAndPath(m) ==
    [funcArgs |-> Trim(RequestArg(m) \o PathArgs(m) \o QueryArgs(m), {",", " "}),
     path     |-> ReplaceAllSlashSlash(ROOT_PATH \o StrippedPath(m) \o PathInterps(m))]

(***************************************************************************)
(* The loop body of tsGenFile.createAPIClient (lines 264-299): the text of *)
(* one method, as the list of lines pf() prints.                           *)
(***************************************************************************)
\* The delimiter of a TypeScript template literal (a backquote).
BQ == "backquote"

ToLower(verb) ==
    CASE verb = "GET" -> "get"
      [] verb = "POST" -> "post"
      [] verb = "PUT" -> "put"
      [] verb = "DELETE" -> "delete"
      [] OTHER -> verb

returnType(m) ==
    IF m.Response # Nil THEN TypescriptTypeName(responseType(m)) ELSE "void"

returnStmt(m) ==
    <<"return">>
    \o (IF m.Response # Nil
        THEN <<" response.json().then((body) => body as ", returnType(m), ")">>
        ELSE <<>>)
    \o <<";">>

SignatureLine(m, args) ==
    <<"\t", "public async ", m.TypeScriptName, "(">> \o args
        \o <<"): Promise<", returnType(m), "> {">>

SetLine(p) ==
    <<"\t", "\t", "u.searchParams.set('", p.Name, "', ", p.Name, ");">>

\* Faulty variant: the URL object is built whether or not there are query parameters.
FullPathLines_AlwaysURL(m, p) ==
    <<(<<"\t", "\t", "const u = new URL(", BQ>> \o p \o <<BQ, ");">>)>>
    \o [k \in 1..Len(m.QueryParams) |-> SetLine(m.QueryParams[k])]
    \o <<(<<"\t", "\t", "const fullPath = u.toString();">>)>>

FullPathLines(m, p) ==
    IF Len(m.QueryParams) > 0
    THEN <<(<<"\t", "\t", "const u = new URL(", BQ>> \o p \o <<BQ, ");">>)>>
         \o [k \in 1..Len(m.QueryParams) |-> SetLine(m.QueryParams[k])]
         \o <<(<<"\t", "\t", "const fullPath = u.toString();">>)>>
    ELSE <<(<<"\t", "\t", "const fullPath = ", BQ>> \o p \o <<BQ, ";">>)>>

DispatchLine(m) ==
    IF m.Request # Nil
    THEN <<"\t", "\t", "const response = await this.http.", ToLower(m.Method),
           "(fullPath, JSON.stringify(request));">>
    ELSE <<"\t", "\t", "const response = await this.http.", ToLower(m.Method),
           "(fullPath);">>

\* Faulty variant: a method without a Response gets no success branch.
BranchLines_SkipVoid(m) ==
    (IF m.Response # Nil
     THEN << <<"\t", "\t", "if (response.ok) {">>,
             <<"\t", "\t", "\t">> \o returnStmt(m),
             <<"\t", "\t", "}">> >>
     ELSE <<>>)
    \o << <<"\t", "\t", "const err = await response.json();">>,
          <<"\t", "\t", "throw new Error(err.error);">>,
          <<"\t", "}">> >>

BranchLines(m) ==
    << <<"\t", "\t", "if (response.ok) {">>,
       <<"\t", "\t", "\t">> \o returnStmt(m),
       <<"\t", "\t", "}">>,
       <<"\t", "\t", "const err = await response.json();">>,
       <<"\t", "\t", "throw new Error(err.error);">>,
       <<"\t", "}">> >>

methodText(m, args, p) ==
    << <<>>, SignatureLine(m, args) >>
    \o FullPathLines(m, p)
    \o <<DispatchLine(m)>>
    \o BranchLines(m)

(***************************************************************************)
(* The endpoints getArgsAndPath and the loop body are applied to.          *)
(***************************************************************************)
\* A path template is a list of segments: an empty one, a static one, or a
\* placeholder.
Pieces ==
    { <<"/">>, <<"/", "a">>, <<"/", "{", "x", "}">>, <<"/", "{", "y", "}">> }

Templates ==
    { Flatten(ps) : ps \in UNION { [1..n -> Pieces] : n \in 0..MaxPieces } }

PathParamLists ==
    LET x == Param("x", "uuid.UUID")
        y == Param("y", "int")
    IN  { <<>>, <<x>>, <<y>>, <<x, y>>, <<y, x>> }

QueryParamLists ==
    LET q == Param("q", "string")
        r == Param("r", "int")
    IN  { <<>>, <<q>>, <<r>>, <<q, r>>, <<r, q>> }

Endpoints ==
    { [Path |-> t, Method |-> IF req = Nil THEN "GET" ELSE "POST",
       TypeScriptName |-> "op", Request |-> req, Response |-> resp,
       PathParams |-> pp, QueryParams |-> qp] :
        t \in Templates, req \in {Nil, "Req"}, resp \in {Nil, "Resp"},
        pp \in PathParamLists, qp \in QueryParamLists }

(***************************************************************************)
(* SpecEndpoint: one pass of the loop body of createAPIClient over one     *)
(* endpoint: the call of getArgsAndPath (line 266), then the lines printed *)
(* for the method (lines 264, 268-299).                                    *)
(***************************************************************************)
SleeperOff ==
    /\ maxTries = 0
    /\ slept = 0
    /\ spc = "off"
    /\ stimer = "unset"
    /\ sctx = FALSE
    /\ returns = <<>>

DetectorOff ==
    /\ mpc = "off"
    /\ dpc = "off"
    /\ timer = "unset"
    /\ ctxDone = FALSE
    /\ firedAfterCancel = FALSE
    /\ sawBoth = FALSE
    /\ apc = "off"
    /\ ticker = "unset"

GenOff ==
    /\ api = Nil
    /\ result = <<>>
    /\ types = <<>>
    /\ gi = 0
    /\ gpc = "off"
    /\ runs = 0
    /\ files = <<>>

InitEndpoint ==
    /\ GenOff
    /\ DetectorOff
    /\ SleeperOff
    /\ method \in Endpoints
    /\ funcArgs = <<>>
    /\ path = <<>>
    /\ body = <<>>
    /\ epc = "loop"

CallGetArgsAndPath ==
    /\ epc = "loop"
    /\ funcArgs' = getArgsAndPath(method).funcArgs
    /\ path' = getArgsAndPath(method).path
    /\ epc' = "args"
    /\ UNCHANGED <<method, body>>
    /\ UNCHANGED <<gvars, hvars, svars>>

PrintMethod ==
    /\ epc = "args"
    /\ body' = methodText(method, funcArgs, path)
    /\ epc' = "printed"
    /\ UNCHANGED <<method, funcArgs, path>>
    /\ UNCHANGED <<gvars, hvars, svars>>

NextEndpoint == CallGetArgsAndPath \/ PrintMethod

SpecEndpoint == InitEndpoint /\ [][NextEndpoint]_vars

(***************************************************************************)
(* The type registry (Types).  NewTypes, Register and                      *)
(* GenerateTypescriptDefinitions belong to another file of package apigen: *)
(* a registry keeps each type once, in first-registration order, and       *)
(* renders one definition per registered type, in that order.              *)
(***************************************************************************)
NewTypes == <<>>

Register(ts, t) ==
    IF \E i \in 1..Len(ts) : ts[i] = t THEN ts ELSE Append(ts, t)

RECURSIVE RegisterAll(_, _)
RegisterAll(ts, list) ==
    IF list = <<>> THEN ts
    ELSE RegisterAll(Register(ts, Head(list)), Tail(list))

GenerateTypescriptDefinitions(ts) ==
    [k \in 1..Len(ts) |-> <<"export type ", TypescriptTypeName(ts[k]), ";">>]

\* capitalize, strings.ToUpper and API.endpointBasePath on the names used.
capitalize(prefix) == <<"G">> \o Tail(prefix)
ToUpper(version) == IF version = "v0" THEN "V0" ELSE version
endpointBasePath(a) == <<"/api/", a.Version>>

(***************************************************************************)
(* tsGenFile.registerTypes (lines 238-257): the Register calls, in order.  *)
(***************************************************************************)
RegisteredOfMethod(m) ==
    (IF m.Request # Nil THEN <<requestType(m)>> ELSE <<>>)
    \o (IF m.Response # Nil THEN <<responseType(m)>> ELSE <<>>)
    \o [k \in 1..Len(m.QueryParams) |->
          getElementaryType(namedType(m.QueryParams[k], "query"))]

RegisteredOfGroup(g) ==
    Flatten([k \in 1..Len(g.endpoints) |-> RegisteredOfMethod(g.endpoints[k])])

registerCalls(a) ==
    Flatten([k \in 1..Len(a.EndpointGroups) |->
                RegisteredOfGroup(a.EndpointGroups[k])])

(***************************************************************************)
(* tsGenFile.createAPIClient (lines 259-302): the lines printed for one    *)
(* group.                                                                  *)
(***************************************************************************)
MethodLines(m) ==
    methodText(m, getArgsAndPath(m).funcArgs, getArgsAndPath(m).path)

ClientLines(a, g) ==
    << <<>>,
       <<"export class ">> \o capitalize(g.Prefix)
           \o <<"HttpApi", ToUpper(a.Version), " {">>,
       <<"\t", "private readonly http: HttpClient = new HttpClient();">>,
       <<"\t", "private readonly ROOT_PATH: string = '">>
           \o endpointBasePath(a) \o <<"/">> \o g.Prefix \o <<"';">> >>
    \o Flatten([k \in 1..Len(g.endpoints) |-> MethodLines(g.endpoints[k])])
    \o << <<"}">> >>

HeaderLines ==
    << <<"// AUTOGENERATED BY private/apigen">>,
       <<"// DO NOT EDIT.">>,
       <<>>,
       <<"import { HttpClient } from '@/utils/httpClient';">> >>

\* strings.ReplaceAll(f.result, "\t", "    ") (line 219)
ExpandTabs(lines) ==
    [i \in 1..Len(lines) |->
        [j \in 1..Len(lines[i]) |->
            IF lines[i][j] = "\t" THEN "    " ELSE lines[i][j]]]

(***************************************************************************)
(* The schemas a run is given.                                             *)
(***************************************************************************)
Endpoint(name, verb, template, req, resp, pp, qp) ==
    [Path |-> template, Method |-> verb, TypeScriptName |-> name,
     Request |-> req, Response |-> resp, PathParams |-> pp, QueryParams |-> qp]

EndpointPool ==
    { Endpoint("get", "GET", <<"/", "{", "x", "}">>, Nil, "Resp",
               <<Param("x", "uuid.UUID")>>, <<>>),
      Endpoint("create", "POST", <<"/", "a">>, "Req", Nil, <<>>,
               <<Param("q", "[]string")>>),
      Endpoint("remove", "DELETE", <<"/", "a", "/", "{", "y", "}">>, Nil, Nil,
               <<>>, <<>>) }

EndpointLists == UNION { [1..n -> EndpointPool] : n \in 0..MaxEndpoints }

APIs ==
    { [Version |-> "v0",
       EndpointGroups |->
           [k \in 1..n |-> [Prefix |-> <<"g", ToString(k)>>, endpoints |-> es[k]]]] :
        n \in 0..MaxGroups, es \in [1..MaxGroups -> EndpointLists] }

(***************************************************************************)
(* SpecGen: API.MustWriteTS (lines 188-197), called up to MaxRuns times on *)
(* one unchanged API; generateTS (lines 223-236) runs statement by         *)
(* statement.                                                              *)
(***************************************************************************)
EndpointOff ==
    /\ method = Nil
    /\ funcArgs = <<>>
    /\ path = <<>>
    /\ body = <<>>
    /\ epc = "off"

InitGen ==
    /\ EndpointOff
    /\ DetectorOff
    /\ SleeperOff
    /\ api \in APIs
    /\ result = <<>>
    /\ types = <<>>
    /\ gi = 0
    /\ gpc = "idle"
    /\ runs = 0
    /\ files = <<>>

\* Faulty variant: the generator object is reused, its result buffer is not reset.
newTSGenFile_KeepResult ==
    /\ gpc = "idle"
    /\ runs < MaxRuns
    /\ runs' = runs + 1
    /\ types' = NewTypes
    /\ gi' = 0
    /\ gpc' = "header"
    /\ UNCHANGED <<api, files, result>>
    /\ UNCHANGED <<evars, hvars, svars>>

\* MustWriteTS line 189; newTSGenFile, lines 206-212.
newTSGenFile ==
    /\ gpc = "idle"
    /\ runs < MaxRuns
    /\ runs' = runs + 1
    /\ result' = <<>>
    /\ types' = NewTypes
    /\ gi' = 0
    /\ gpc' = "header"
    /\ UNCHANGED <<api, files>>
    /\ UNCHANGED <<evars, hvars, svars>>

\* generateTS, lines 224-227.
printHeader ==
    /\ gpc = "header"
    /\ result' = result \o HeaderLines
    /\ gpc' = "register"
    /\ UNCHANGED <<api, types, gi, runs, files>>
    /\ UNCHANGED <<evars, hvars, svars>>

\* generateTS, line 229.
registerTypes ==
    /\ gpc = "register"
    /\ types' = RegisterAll(types, registerCalls(api))
    /\ gpc' = "definitions"
    /\ UNCHANGED <<api, result, gi, runs, files>>
    /\ UNCHANGED <<evars, hvars, svars>>

\* generateTS, line 230.
printDefinitions ==
    /\ gpc = "definitions"
    /\ result' = result \o GenerateTypescriptDefinitions(types)
    /\ gi' = 1
    /\ gpc' = "clients"
    /\ UNCHANGED <<api, types, runs, files>>
    /\ UNCHANGED <<evars, hvars, svars>>

\* generateTS, lines 232-235: one iteration of the loop.
createAPIClient ==
    /\ gpc = "clients"
    /\ gi <= Len(api.EndpointGroups)
    /\ result' = result \o ClientLines(api, api.EndpointGroups[gi])
    /\ gi' = gi + 1
    /\ UNCHANGED <<api, types, gpc, runs, files>>
    /\ UNCHANGED <<evars, hvars, svars>>

\* generateTS returns when the loop is over.
generateTSReturns ==
    /\ gpc = "clients"
    /\ gi > Len(api.EndpointGroups)
    /\ gpc' = "write"
    /\ UNCHANGED <<api, result, types, gi, runs, files>>
    /\ UNCHANGED <<evars, hvars, svars>>

\* MustWriteTS lines 193-196; write, lines 218-221: os.WriteFile succeeds,
\* or fails and MustWriteTS panics.
write ==
    /\ gpc = "write"
    /\ \/ /\ files' = Append(files, ExpandTabs(result))
          /\ gpc' = "idle"
       \/ /\ files' = files
          /\ gpc' = "panicked"
    /\ UNCHANGED <<api, result, types, gi, runs>>
    /\ UNCHANGED <<evars, hvars, svars>>

NextGen ==
    \/ newTSGenFile
    \/ printHeader
    \/ registerTypes
    \/ printDefinitions
    \/ createAPIClient
    \/ generateTSReturns
    \/ write

SpecGen == InitGen /\ [][NextGen]_vars

(***************************************************************************)
(* package uitest: browserTimeoutDetector (lines 121-134) and its use in   *)
(* Run (lines 64-65, 92-93, 113-117).                                      *)
(*                                                                         *)
(* The detector goroutine creates its timer and then selects on the timer  *)
(* channel and on ctx.Done().  A select that finds several cases ready     *)
(* chooses one of them; a select that finds none ready blocks, and the     *)
(* first event (the timer's send or the close of Done) completes it with   *)
(* that case.                                                              *)
(***************************************************************************)
InitDetector ==
    /\ EndpointOff
    /\ GenOff
    /\ SleeperOff
    /\ mpc = "start"
    /\ dpc = "unborn"
    /\ timer = "unset"
    /\ ctxDone = FALSE
    /\ firedAfterCancel = FALSE
    /\ sawBoth = FALSE
    /\ apc = "off"
    /\ ticker = "unset"

Alive == dpc # "panicked"

\* Run line 64; browserTimeoutDetector lines 122-123, 133: the context is
\* made, the goroutine is started, cancel is returned.
browserTimeoutDetector ==
    /\ Alive
    /\ mpc = "start"
    /\ mpc' = "launch"
    /\ dpc' = "started"
    /\ UNCHANGED <<timer, ctxDone, firedAfterCancel, sawBoth>>
    /\ UNCHANGED <<apc, ticker>>
    /\ UNCHANGED <<evars, gvars, svars>>

\* Run lines 92-93: launch.Launch() returns; on an error require.NoError
\* ends the test function and its deferred calls run.
launch ==
    /\ Alive
    /\ mpc = "launch"
    /\ mpc' \in {"connect", "kill"}
    /\ UNCHANGED <<dpc, timer, ctxDone, firedAfterCancel, sawBoth>>
    /\ UNCHANGED <<apc, ticker>>
    /\ UNCHANGED <<evars, gvars, svars>>

\* Run line 113: browser.Connect() returns, with an error or without.
connect ==
    /\ Alive
    /\ mpc = "connect"
    /\ mpc' \in {"loaded", "close"}
    /\ UNCHANGED <<dpc, timer, ctxDone, firedAfterCancel, sawBoth>>
    /\ UNCHANGED <<apc, ticker>>
    /\ UNCHANGED <<evars, gvars, svars>>

\* Faulty variant: cancel closes Done but does not complete a select blocked on it.
cancel_NoWake(from, to) ==
    /\ Alive
    /\ mpc = from
    /\ mpc' = to
    /\ ctxDone' = TRUE
    /\ UNCHANGED <<dpc, timer, firedAfterCancel, sawBoth>>
    /\ UNCHANGED <<apc, ticker>>
    /\ UNCHANGED <<evars, gvars, svars>>

\* The context.CancelFunc: closes Done once; a select blocked on Done
\* completes with that case.
cancel(from, to) ==
    /\ Alive
    /\ mpc = from
    /\ mpc' = to
    /\ ctxDone' = TRUE
    /\ dpc' = IF dpc = "blocked" THEN "wokenByDone" ELSE dpc
    /\ UNCHANGED <<timer, firedAfterCancel, sawBoth>>
    /\ UNCHANGED <<apc, ticker>>
    /\ UNCHANGED <<evars, gvars, svars>>

\* Run line 115: browserLoaded().
browserLoaded == cancel("loaded", "test")

\* Run line 117: the test body returns (or fails); the deferred calls run,
\* last registered first.
test ==
    /\ Alive
    /\ mpc = "test"
    /\ mpc' = "close"
    /\ UNCHANGED <<dpc, timer, ctxDone, firedAfterCancel, sawBoth>>
    /\ UNCHANGED <<apc, ticker>>
    /\ UNCHANGED <<evars, gvars, svars>>

\* Run line 111: defer ctx.Check(browser.Close).
browserClose ==
    /\ Alive
    /\ mpc = "close"
    /\ mpc' = "kill"
    /\ UNCHANGED <<dpc, timer, ctxDone, firedAfterCancel, sawBoth>>
    /\ UNCHANGED <<apc, ticker>>
    /\ UNCHANGED <<evars, gvars, svars>>

\* Run lines 87-90: launch.Kill(), then avoidStall lines 158-162: the
\* goroutine that runs launch.Cleanup is started.
avoidStall ==
    /\ Alive
    /\ mpc = "kill"
    /\ mpc' = "newTicker"
    /\ apc' = "cleanup"
    /\ UNCHANGED <<dpc, timer, ctxDone, firedAfterCancel, sawBoth, ticker>>
    /\ UNCHANGED <<evars, gvars, svars>>

\* avoidStall line 164: timeout := time.NewTicker(maxDuration)
newTicker ==
    /\ Alive
    /\ mpc = "newTicker"
    /\ mpc' = "stalled"
    /\ ticker' = "armed"
    /\ UNCHANGED <<dpc, timer, ctxDone, firedAfterCancel, sawBoth, apc>>
    /\ UNCHANGED <<evars, gvars, svars>>

\* avoidStall lines 160-161: fn() returns and done is closed.
cleanupDone ==
    /\ Alive
    /\ apc = "cleanup"
    /\ apc' = "closed"
    /\ UNCHANGED <<mpc, dpc, timer, ctxDone, firedAfterCancel, sawBoth, ticker>>
    /\ UNCHANGED <<evars, gvars, svars>>

\* The runtime: avoidStall's ticker sends on timeout.C.
tickerFires ==
    /\ Alive
    /\ ticker = "armed"
    /\ ticker' = "fired"
    /\ UNCHANGED <<mpc, dpc, timer, ctxDone, firedAfterCancel, sawBoth, apc>>
    /\ UNCHANGED <<evars, gvars, svars>>

\* avoidStall lines 165-170: the select returns on done or on the ticker;
\* the deferred timeout.Stop() runs.
avoidStallReturns ==
    /\ Alive
    /\ mpc = "stalled"
    /\ apc = "closed" \/ ticker = "fired"
    /\ mpc' = "deferred"
    /\ ticker' = IF ticker = "armed" THEN "stopped" ELSE ticker
    /\ UNCHANGED <<dpc, timer, ctxDone, firedAfterCancel, sawBoth, apc>>
    /\ UNCHANGED <<evars, gvars, svars>>

\* Run line 65: defer browserLoaded().
deferredBrowserLoaded == cancel("deferred", "returned")

\* browserTimeoutDetector line 124: t := time.NewTimer(duration)
newTimer ==
    /\ dpc = "started"
    /\ timer' = "armed"
    /\ dpc' = "select"
    /\ UNCHANGED <<mpc, ctxDone, firedAfterCancel, sawBoth>>
    /\ UNCHANGED <<apc, ticker>>
    /\ UNCHANGED <<evars, gvars, svars>>

\* The runtime: the duration is over, the timer sends on t.C.
timerFires ==
    /\ Alive
    /\ timer = "armed"
    /\ timer' = "fired"
    /\ firedAfterCancel' = ctxDone
    /\ dpc' = IF dpc = "blocked" THEN "wokenByTimer" ELSE dpc
    /\ UNCHANGED <<mpc, ctxDone, sawBoth>>
    /\ UNCHANGED <<apc, ticker>>
    /\ UNCHANGED <<evars, gvars, svars>>

\* browserTimeoutDetector lines 126-131: the select statement is entered.
select ==
    /\ dpc = "select"
    /\ sawBoth' = (timer = "fired" /\ ctxDone)
    /\ \/ /\ timer = "fired"
          /\ dpc' = "panicked"
          /\ timer' = timer
       \/ /\ ctxDone
          /\ dpc' = "exited"
          /\ timer' = IF timer = "armed" THEN "stopped" ELSE timer
       \/ /\ timer # "fired"
          /\ ~ctxDone
          /\ dpc' = "blocked"
          /\ timer' = timer
    /\ UNCHANGED <<mpc, ctxDone, firedAfterCancel>>
    /\ UNCHANGED <<apc, ticker>>
    /\ UNCHANGED <<evars, gvars, svars>>

\* The blocked select was completed by the timer: line 128, panic.
resumePanic ==
    /\ dpc = "wokenByTimer"
    /\ dpc' = "panicked"
    /\ UNCHANGED <<mpc, timer, ctxDone, firedAfterCancel, sawBoth>>
    /\ UNCHANGED <<apc, ticker>>
    /\ UNCHANGED <<evars, gvars, svars>>

\* The blocked select was completed by Done: line 130, return; the
\* deferred t.Stop() (line 125) runs.
resumeReturn ==
    /\ dpc = "wokenByDone"
    /\ dpc' = "exited"
    /\ timer' = IF timer = "armed" THEN "stopped" ELSE timer
    /\ UNCHANGED <<mpc, ctxDone, firedAfterCancel, sawBoth>>
    /\ UNCHANGED <<apc, ticker>>
    /\ UNCHANGED <<evars, gvars, svars>>

NextDetector ==
    \/ browserTimeoutDetector
    \/ launch
    \/ connect
    \/ browserLoaded
    \/ test
    \/ browserClose
    \/ avoidStall
    \/ newTicker
    \/ cleanupDone
    \/ tickerFires
    \/ avoidStallReturns
    \/ deferredBrowserLoaded
    \/ newTimer
    \/ timerFires
    \/ select
    \/ resumePanic
    \/ resumeReturn

SpecDetector == InitDetector /\ [][NextDetector]_vars

(***************************************************************************)
(* package uitest: timeoutSleeper (lines 136-155).  One sleeper is called  *)
(* again and again, one call at a time, with a context that may be         *)
(* cancelled at any moment.                                                *)
(***************************************************************************)
InitSleeper ==
    /\ EndpointOff
    /\ GenOff
    /\ DetectorOff
    /\ maxTries \in 1..MaxMaxTries
    /\ slept = 0
    /\ spc = "idle"
    /\ stimer = "unset"
    /\ sctx \in BOOLEAN
    /\ returns = <<>>

Return(err, waited, via) == [err |-> err, waited |-> waited, via |-> via]

\* Faulty variant: the counter is compared before it is incremented.
sleeperCall_OffByOne ==
    /\ spc = "idle"
    /\ Len(returns) < MaxCalls
    /\ slept' = slept + 1
    /\ IF slept > maxTries
       THEN /\ returns' = Append(returns, Return("ErrMaxSleepCount", FALSE, "none"))
            /\ UNCHANGED <<spc, stimer>>
       ELSE /\ spc' = "select"
            /\ stimer' = "armed"
            /\ UNCHANGED returns
    /\ UNCHANGED <<maxTries, sctx>>
    /\ UNCHANGED <<evars, gvars, hvars>>

\* Lines 141-146: slept++, the check against maxTries, time.NewTimer.
sleeperCall ==
    /\ spc = "idle"
    /\ Len(returns) < MaxCalls
    /\ slept' = slept + 1
    /\ IF slept + 1 > maxTries
       THEN /\ returns' = Append(returns, Return("ErrMaxSleepCount", FALSE, "none"))
            /\ UNCHANGED <<spc, stimer>>
       ELSE /\ spc' = "select"
            /\ stimer' = "armed"
            /\ UNCHANGED returns
    /\ UNCHANGED <<maxTries, sctx>>
    /\ UNCHANGED <<evars, gvars, hvars>>

\* The runtime: singleSleep is over, the timer sends on t.C.
sleeperTimerFires ==
    /\ stimer = "armed"
    /\ stimer' = "fired"
    /\ UNCHANGED <<maxTries, slept, spc, sctx, returns>>
    /\ UNCHANGED <<evars, gvars, hvars>>

\* The caller's context is cancelled.
sleeperCtxCancelled ==
    /\ ~sctx
    /\ sctx' = TRUE
    /\ UNCHANGED <<maxTries, slept, spc, stimer, returns>>
    /\ UNCHANGED <<evars, gvars, hvars>>

\* Lines 148-153: the select completes on either case; t.Stop(); return nil.
sleeperReturnsNil ==
    /\ spc = "select"
    /\ \E via \in {"timer", "ctx"} :
          /\ via = "timer" => stimer = "fired"
          /\ via = "ctx" => sctx
          /\ returns' = Append(returns, Return("nil", TRUE, via))
    /\ spc' = "idle"
    /\ stimer' = IF stimer = "armed" THEN "stopped" ELSE stimer
    /\ UNCHANGED <<maxTries, slept, sctx>>
    /\ UNCHANGED <<evars, gvars, hvars>>

NextSleeper ==
    \/ sleeperCall
    \/ sleeperTimerFires
    \/ sleeperCtxCancelled
    \/ sleeperReturnsNil

SpecSleeper == InitSleeper /\ [][NextSleeper]_vars

(***************************************************************************)
(* Reading the generated text back.                                        *)
(***************************************************************************)
Range(s) == { s[i] : i \in 1..Len(s) }

Names(params) == [k \in 1..Len(params) |-> params[k].Name]

\* The parameter names of a TypeScript parameter list "n1: T1, n2: T2".
RECURSIVE ParamNames(_)
ParamNames(args) ==
    IF args = <<>> THEN <<>>
    ELSE LET seps == { i \in 1..(Len(args) - 1) :
                         args[i] = "," /\ args[i + 1] = " " }
         IN  IF seps = {} THEN <<args[1]>>
             ELSE LET i == CHOOSE j \in seps : \A k \in seps : j <= k
                  IN  <<args[1]>> \o ParamNames(SubSeq(args, i + 2, Len(args)))

\* The names of the {name} placeholders of a template, in template order.
RECURSIVE PlaceholderNames(_)
PlaceholderNames(t) ==
    IF Len(t) < 3 THEN <<>>
    ELSE IF t[1] = "{" /\ t[3] = "}"
         THEN <<t[2]>> \o PlaceholderNames(SubSeq(t, 4, Len(t)))
         ELSE PlaceholderNames(Tail(t))

\* The template with every {name} replaced, in place, by ${name}.
RECURSIVE Substituted(_)
Substituted(t) ==
    IF t = <<>> THEN <<>>
    ELSE IF Len(t) >= 3 /\ t[1] = "{" /\ t[3] = "}"
         THEN <<"$", "{", t[2], "}">> \o Substituted(SubSeq(t, 4, Len(t)))
         ELSE <<t[1]>> \o Substituted(Tail(t))

\* A "{" that is not the "{" of an interpolation "${".
HasPlaceholder(p) ==
    \E i \in 1..Len(p) : p[i] = "{" /\ (i = 1 \/ p[i - 1] # "$")

\* The data model's invariant on an endpoint: the placeholders of the
\* template and the PathParams are the same names, each once.
Matched(m) ==
    /\ Range(PlaceholderNames(m.Path)) = Range(Names(m.PathParams))
    /\ Len(PlaceholderNames(m.Path)) = Len(m.PathParams)

Expanded == epc \in {"args", "printed"}

Filter(lines, tok) ==
    SelectSeq(lines, LAMBDA l : Len(l) >= 3 /\ l[3] = tok)

C2_PlaceholdersReplacedInPlace ==
    (/\ Expanded
     /\ Names(method.PathParams) = PlaceholderNames(method.Path)
     /\ ~Contains(method.Path \o <<"/">>, <<"/", "/">>))
    => /\ path = ROOT_PATH \o Substituted(method.Path)
       /\ ~HasPlaceholder(path)

(***************************************************************************)
(* C3: the path expression returned by getArgsAndPath contains no "//".    *)
(* Stated for the endpoints that have path parameters and whose PathParams *)
(* are the template's placeholders.                                        *)
(***************************************************************************)
C3_NoDoubleSlash ==
    (Expanded /\ Matched(method) /\ method.PathParams # <<>>)
        => ~Contains(path, <<"/", "/">>)

(***************************************************************************)
(* C5: "new URL(...)" is printed iff the endpoint has a query parameter;   *)
(* it is then followed by one searchParams.set per query parameter, in     *)
(* declaration order, and by "fullPath = u.toString()"; no query parameter *)
(* is part of the path expression; without query parameters fullPath is    *)
(* the path expression, which interpolates path parameters only.           *)
(***************************************************************************)
Interpolations(p) ==
    { p[i + 2] : i \in { j \in 1..(Len(p) - 2) : p[j] = "$" /\ p[j + 1] = "{" } }

C5_QueryBuilderIffQueryParams ==
    (epc = "printed") =>
        LET M == Len(method.QueryParams)
            urls == Filter(body, "const u = new URL(")
            sets == Filter(body, "u.searchParams.set('")
            full == Filter(body, "const fullPath = ")
        IN  /\ Len(urls) = (IF M > 0 THEN 1 ELSE 0)
            /\ Len(sets) = M
            /\ \A k \in 1..Len(sets) :
                   /\ sets[k][4] = method.QueryParams[k].Name
                   /\ sets[k][6] = method.QueryParams[k].Name
            /\ Range(Names(method.QueryParams)) \cap Range(path) = {}
            /\ M > 0 =>
                   /\ full = <<>>
                   /\ body[3] = <<"\t", "\t", "const u = new URL(", BQ>>
                                   \o path \o <<BQ, ");">>
                   /\ SubSeq(body, 4, 3 + M) = sets
                   /\ body[4 + M] = <<"\t", "\t", "const fullPath = u.toString();">>
            /\ M = 0 =>
                   /\ body[3] = <<"\t", "\t", "const fullPath = ", BQ>>
                                   \o path \o <<BQ, ";">>
                   /\ Interpolations(path) \subseteq
                          {"this.ROOT_PATH"} \cup Range(Names(method.PathParams))

C5_WitnessQuery ==
    /\ epc = "printed"
    /\ Len(method.QueryParams) = 2
    /\ Len(method.PathParams) = 1
    /\ Len(Filter(body, "u.searchParams.set('")) = 2

(***************************************************************************)
(* C6: every printed method has exactly one HTTP dispatch, directly        *)
(* followed by the branch guarded by response.ok and then by the failure   *)
(* branch, which decodes the error payload and throws its message; the     *)
(* success branch returns the decoded body exactly when a Response is      *)
(* declared and is a bare return otherwise.                                *)
(***************************************************************************)
C6_BothBranchesAlways ==
    (epc = "printed") =>
        LET calls == { i \in 1..Len(body) :
                         Len(body[i]) >= 3
                         /\ body[i][3] = "const response = await this.http." }
        IN  /\ Cardinality(calls) = 1
            /\ \A d \in calls :
                   /\ Len(body) = d + 6
                   /\ body[d + 1] = <<"\t", "\t", "if (response.ok) {">>
                   /\ body[d + 2] =
                         IF method.Response # Nil
                         THEN <<"\t", "\t", "\t", "return",
                                " response.json().then((body) => body as ",
                                TypescriptTypeName(method.Response), ")", ";">>
                         ELSE <<"\t", "\t", "\t", "return", ";">>
                   /\ body[d + 3] = <<"\t", "\t", "}">>
                   /\ body[d + 4] = <<"\t", "\t", "const err = await response.json();">>
                   /\ body[d + 5] = <<"\t", "\t", "throw new Error(err.error);">>
                   /\ body[d + 6] = <<"\t", "}">>

C6_WitnessNoRequestNoResponse ==
    /\ epc = "printed"
    /\ method.Request = Nil
    /\ method.Response = Nil
    /\ method.PathParams = <<>>
    /\ method.QueryParams = <<>>
    /\ Len(body) = 10

(***************************************************************************)
(* C4: when the first type definition or method text is rendered, every    *)
(* Request, Response, path-parameter and query-parameter type of every     *)
(* endpoint of every group has been registered.                            *)
(***************************************************************************)
MethodsOf(a) ==
    Flatten([k \in 1..Len(a.EndpointGroups) |-> a.EndpointGroups[k].endpoints])

TypesOfMethod(m) ==
    (IF m.Request # Nil THEN {m.Request} ELSE {})
    \cup (IF m.Response # Nil THEN {m.Response} ELSE {})
    \cup { getElementaryType(m.PathParams[k].Type) : k \in 1..Len(m.PathParams) }
    \cup { getElementaryType(m.QueryParams[k].Type) : k \in 1..Len(m.QueryParams) }

TypesOfAPI(a) ==
    UNION { TypesOfMethod(MethodsOf(a)[k]) : k \in 1..Len(MethodsOf(a)) }

Rendering == gpc \in {"definitions", "clients", "write"}

C4_EveryTypeRegisteredBeforeRendering ==
    Rendering => TypesOfAPI(api) \subseteq Range(types)

(***************************************************************************)
(* C7: when an endpoint's template has a placeholder without a PathParam   *)
(* of that name, or a PathParam without a placeholder, the run aborts and  *)
(* no module text is written.                                              *)
(***************************************************************************)
HasMismatch(a) ==
    \E k \in 1..Len(MethodsOf(a)) : ~Matched(MethodsOf(a)[k])

C7_MismatchWritesNothing ==
    HasMismatch(api) => files = <<>>

C9_PanicNeedsFiredTimer ==
    /\ dpc \in {"panicked", "wokenByTimer"} => timer = "fired"
    /\ (dpc = "panicked" /\ firedAfterCancel) => sawBoth
    /\ dpc = "wokenByDone" => ctxDone

C9_WitnessCancelledInTime ==
    /\ dpc = "exited"
    /\ ctxDone
    /\ timer = "stopped"
    /\ mpc = "returned"

\* C9 as stated: with cancel called before the timer fires there is no
\* panic, under every interleaving.
C9_CancelBeforeFireNeverPanics ==
    dpc = "panicked" => ~firedAfterCancel

(***************************************************************************)
(* C10: the first maxTries calls of a sleeper return nil, after the select *)
(* (timer or context); every later call returns ErrMaxSleepCount without   *)
(* waiting; nil is returned at most maxTries times.                        *)
(***************************************************************************)
C10_NilExactlyForFirstMaxTries ==
    /\ \A i \in 1..Len(returns) :
          IF i <= maxTries
          THEN returns[i].err = "nil" /\ returns[i].waited
          ELSE returns[i].err = "ErrMaxSleepCount" /\ ~returns[i].waited
    /\ Cardinality({ i \in 1..Len(returns) : returns[i].err = "nil" }) <= maxTries
    /\ spc = "select" => Len(returns) < maxTries

C10_WitnessPastMaxTries ==
    /\ Len(returns) >= maxTries + 2
    /\ maxTries >= 2
    /\ \E i \in 1..Len(returns) : returns[i].via = "ctx"
    /\ \E i \in 1..Len(returns) : returns[i].via = "timer"

====
